---- MODULE Spec2Model ----
(***************************************************************************)
(* Binary heap of exercises/algorithm/algorithm9.rs: Heap<T> with a        *)
(* function-pointer comparator, 1-based storage with a placeholder in      *)
(* slot 0, add (sift-up) and Iterator::next (sift-down).                   *)
(*                                                                         *)
(* T is modelled as the integers 0..MaxVal (i32, T::default() = 0).        *)
(* A Rust index i of `items` is position i + 1 of the TLA+ sequence.       *)
(* The two loops run one iteration per step, so that every index the code  *)
(* uses and every loop iteration is a step of the model.  An index outside *)
(* the vector makes the Rust code panic: the model then goes to            *)
(* pc = "panic" and stays there.                                           *)
(***************************************************************************)
EXTENDS Integers, Sequences, FiniteSets

\* Bounds of the model.
MaxVal == 4          \* values are 0..MaxVal
MaxAdds == 5         \* add calls in one run
MaxEmptyCalls == 2   \* next() calls in a row on an empty heap

Vals == 0..MaxVal

\* T::default() for i32.
Default == 0

\* Option<T>: None is the empty sequence, Some(v) the one-element sequence.
None == <<>>
Some(v) == <<v>>

\* The fn(&T, &T) -> bool values a heap is built with: the two closures of
\* new_min / new_max (and MinHeap::new / MaxHeap::new), and callers' own
\* comparators given to Heap::new, valid orderings or not.
Comparators == {"lt", "gt", "half_lt", "le", "ne", "true", "false", "succ"}

\* (self.comparator)(&a, &b)
Call(f, a, b) ==
    CASE f = "lt" -> a < b                        \* |a, b| a < b
      [] f = "gt" -> a > b                        \* |a, b| a > b
      [] f = "half_lt" -> (a \div 2) < (b \div 2) \* strict weak ordering with ties
      [] f = "le" -> a <= b                       \* reflexive: not strict
      [] f = "ne" -> a # b                        \* symmetric
      [] f = "true" -> TRUE
      [] f = "false" -> FALSE
      [] f = "succ" -> b = (a + 1) % (MaxVal + 1) \* cyclic: not transitive

VARIABLES
    count,          \* Heap::count
    items,          \* Heap::items
    comparator,     \* Heap::comparator
    pc,             \* "idle", "add_loop", "next_loop" or "panic"
    current_idx,    \* local of add / next
    current_value,  \* local of add
    root_value,     \* local of next
    op,             \* the method called last: "new", "add" or "next"
    arg,            \* the value given to the add in progress
    ret,            \* what the last completed call returned
    live,           \* values added minus values returned, as value -> number
    nAdds,          \* completed add calls
    nSome,          \* next() calls that returned Some
    out,            \* the values returned by next() since the last add
    emptyCalls,     \* next() calls on the empty heap since the last add
    touched,        \* indices of items read, written or compared by the last step
    moves,          \* loop iterations of the call in progress or completed last
    after_push      \* the storage right after the push of the last add

vars == <<count, items, comparator, pc, current_idx, current_value, root_value,
          op, arg, ret, live, nAdds, nSome, out, emptyCalls, touched, moves, after_push>>

----------------------------------------------------------------------------
\* Vec<T> with Rust's 0-based indices.

Get(s, i) == s[i + 1]
Put(s, i, v) == [s EXCEPT ![i + 1] = v]
InBounds(s, i) == i >= 0 /\ i < Len(s)
AllInBounds(s, I) == \A i \in I : InBounds(s, i)

\* Mutant of swap: one of the two slots is overwritten, the other kept.
swap_overwrite(s, a, b) == [s EXCEPT ![a + 1] = s[b + 1]]

\* Vec::swap
swap(s, a, b) == [s EXCEPT ![a + 1] = s[b + 1], ![b + 1] = s[a + 1]]

\* Mutant of pop: the last slot is not removed.
pop_nothing(s) == s

\* Vec::pop (the popped value is dropped by the caller)
pop(s) == IF Len(s) = 0 THEN s ELSE SubSeq(s, 1, Len(s) - 1)

----------------------------------------------------------------------------
\* Heap::new

\* Mutant of new: the storage starts as Vec::new(), without the placeholder.
new_no_placeholder(cmp) ==
    /\ count = 0
    /\ items = <<>>
    /\ comparator = cmp

new(cmp) ==
    /\ count = 0
    /\ items = <<Default>>
    /\ comparator = cmp

new_min == new("lt")
new_max == new("gt")

\* Mutant of len: the length of the storage, placeholder included.
len_of_storage == Len(items)

len == count

\* Mutant of is_empty: never true, so next() skips its early return.
is_empty_never == len < 0

is_empty == len = 0

\* Mutants of parent_idx: the division is lost; the previous slot is taken
\* for the parent.
parent_idx_prev(idx) == idx - 1
parent_idx_same(idx) == idx

parent_idx(idx) == idx \div 2

\* Mutant of left_child_idx: the next slot is taken for the left child.
left_child_idx_next(idx) == idx + 1

left_child_idx(idx) == idx * 2

right_child_idx(idx) == left_child_idx(idx) + 1

\* Mutants of children_present: an off-by-one in the bound, and a test of the
\* right child in place of the left one.
children_present_past_end(idx) == left_child_idx(idx) <= count + 1
children_present_both(idx) == right_child_idx(idx) <= count

children_present(idx) == left_child_idx(idx) <= count

\* The indices smallest_child_idx reads: none when the && short-circuits.
smallest_child_reads(idx) ==
    IF right_child_idx(idx) <= count
    THEN {right_child_idx(idx), left_child_idx(idx)}
    ELSE {}

\* Mutant of smallest_child_idx: the right child wins a tie.
smallest_child_idx_right_on_tie(idx) ==
    IF /\ right_child_idx(idx) <= count
       /\ ~Call(comparator, Get(items, left_child_idx(idx)), Get(items, right_child_idx(idx)))
    THEN right_child_idx(idx)
    ELSE left_child_idx(idx)

\* Mutant of smallest_child_idx: the right child is never looked at.
smallest_child_idx_left(idx) == left_child_idx(idx)

smallest_child_idx(idx) ==
    IF /\ right_child_idx(idx) <= count
       /\ Call(comparator, Get(items, right_child_idx(idx)), Get(items, left_child_idx(idx)))
    THEN right_child_idx(idx)
    ELSE left_child_idx(idx)

----------------------------------------------------------------------------
Init ==
    /\ \E cmp \in Comparators : new(cmp)
    /\ pc = "idle"
    /\ current_idx = 0
    /\ current_value = Default
    /\ root_value = Default
    /\ op = "new"
    /\ arg = Default
    /\ ret = None
    /\ live = [v \in Vals |-> 0]
    /\ nAdds = 0
    /\ nSome = 0
    /\ out = <<>>
    /\ emptyCalls = 0
    /\ touched = {}
    /\ moves = 0
    /\ after_push = <<>>

\* An index out of range: the thread panics and the heap is not used again.
Panic(I) ==
    /\ pc' = "panic"
    /\ touched' = I
    /\ UNCHANGED <<count, items, comparator, current_idx, current_value, root_value,
                   op, arg, ret, live, nAdds, nSome, out, emptyCalls, moves, after_push>>

\* add, lines 40-45: push, count += 1, current_idx and current_value.
add_begin(value) ==
    /\ pc = "idle"
    /\ nAdds < MaxAdds
    /\ op' = "add"
    /\ arg' = value
    /\ moves' = 0
    /\ after_push' = Append(items, value)
    /\ LET pushed == Append(items, value)
           c == count + 1
       IN  IF InBounds(pushed, c)
           THEN /\ items' = pushed
                /\ count' = c
                /\ current_idx' = c
                /\ current_value' = Get(pushed, c)
                /\ pc' = "add_loop"
                /\ touched' = {c}
           ELSE /\ items' = pushed
                /\ count' = c
                /\ pc' = "panic"
                /\ touched' = {c}
                /\ UNCHANGED <<current_idx, current_value>>
    /\ UNCHANGED <<comparator, root_value, ret, live, nAdds, nSome, out, emptyCalls>>

\* Mutants of add_guard: the loop stops below the root, or goes on at the root.
add_guard_below_root == current_idx > 2
add_guard_at_root == current_idx >= 1

\* add, line 46: the left operand of the loop condition.
add_guard == current_idx > 1

\* The indices the loop condition reads.
add_reads == IF add_guard THEN {parent_idx(current_idx)} ELSE {}

\* add, line 46: the loop condition.
add_cond ==
    /\ add_guard
    /\ Call(comparator, current_value, Get(items, parent_idx(current_idx)))

\* add, lines 46-50: one iteration of the sift-up loop.
add_sift_up ==
    /\ pc = "add_loop"
    /\ IF ~AllInBounds(items, add_reads)
       THEN Panic(add_reads)
       ELSE /\ add_cond
            /\ LET p == parent_idx(current_idx)
               IN  IF AllInBounds(items, {current_idx, p})
                   THEN /\ items' = Put(items, current_idx, Get(items, p))
                        /\ current_idx' = p
                        /\ touched' = {current_idx, p}
                        /\ moves' = moves + 1
                        /\ UNCHANGED <<count, comparator, pc, current_value, root_value,
                                       op, arg, ret, live, nAdds, nSome, out, emptyCalls,
                                       after_push>>
                   ELSE Panic({current_idx, p})

\* add, lines 46 and 51: the loop ends, the new value is stored, add returns.
add_return ==
    /\ pc = "add_loop"
    /\ AllInBounds(items, add_reads)
    /\ ~add_cond
    /\ IF InBounds(items, current_idx)
       THEN /\ items' = Put(items, current_idx, current_value)
            /\ touched' = add_reads \cup {current_idx}
            /\ pc' = "idle"
            /\ ret' = None
            /\ live' = [live EXCEPT ![arg] = @ + 1]
            /\ nAdds' = nAdds + 1
            /\ out' = <<>>
            /\ emptyCalls' = 0
            /\ current_idx' = 0
            /\ current_value' = Default
            /\ arg' = Default
            /\ UNCHANGED <<count, comparator, root_value, op, nSome, moves, after_push>>
       ELSE Panic(add_reads \cup {current_idx})

\* next, lines 105-107: the heap is empty.
next_empty ==
    /\ pc = "idle"
    /\ is_empty
    /\ emptyCalls < MaxEmptyCalls
    /\ op' = "next"
    /\ ret' = None
    /\ emptyCalls' = emptyCalls + 1
    /\ touched' = {}
    /\ moves' = 0
    /\ after_push' = <<>>
    /\ UNCHANGED <<count, items, comparator, pc, current_idx, current_value, root_value,
                   arg, live, nAdds, nSome, out>>

\* next, lines 109-115: take the root, move the last element to the root.
next_begin ==
    /\ pc = "idle"
    /\ ~is_empty
    /\ op' = "next"
    /\ moves' = 0
    /\ after_push' = <<>>
    /\ IF AllInBounds(items, {1, count})
       THEN /\ root_value' = Get(items, 1)
            /\ items' = pop(swap(items, 1, count))
            /\ count' = count - 1
            /\ current_idx' = 1
            /\ pc' = "next_loop"
            /\ touched' = {1, count}
       ELSE /\ pc' = "panic"
            /\ touched' = {1, count}
            /\ UNCHANGED <<root_value, items, count, current_idx>>
    /\ UNCHANGED <<comparator, current_value, arg, ret, live, nAdds, nSome, out, emptyCalls>>

\* next, line 118: the indices the comparison reads.
next_reads == {smallest_child_idx(current_idx), current_idx}

\* Mutant of next_cond: the operands of the comparison are exchanged.
next_cond_exchanged ==
    Call(comparator, Get(items, current_idx), Get(items, smallest_child_idx(current_idx)))

\* next, line 118: the child outranks the current node.
next_cond ==
    Call(comparator, Get(items, smallest_child_idx(current_idx)), Get(items, current_idx))

\* next, lines 116-120: one iteration of the sift-down loop that swaps.
next_sift_down ==
    /\ pc = "next_loop"
    /\ children_present(current_idx)
    /\ IF ~AllInBounds(items, smallest_child_reads(current_idx))
       THEN Panic(smallest_child_reads(current_idx))
       ELSE IF ~AllInBounds(items, next_reads)
       THEN Panic(smallest_child_reads(current_idx) \cup next_reads)
       ELSE /\ next_cond
            /\ LET c == smallest_child_idx(current_idx)
               IN  /\ items' = swap(items, current_idx, c)
                   /\ current_idx' = c
            /\ touched' = smallest_child_reads(current_idx) \cup next_reads
            /\ moves' = moves + 1
            /\ UNCHANGED <<count, comparator, pc, current_value, root_value,
                           op, arg, ret, live, nAdds, nSome, out, emptyCalls, after_push>>

\* next, lines 116, 122 and 126: the loop ends, next returns the root value.
next_return ==
    /\ pc = "next_loop"
    /\ \/ ~children_present(current_idx)
       \/ /\ AllInBounds(items, smallest_child_reads(current_idx))
          /\ AllInBounds(items, next_reads)
          /\ ~next_cond
    /\ touched' = IF children_present(current_idx)
                  THEN smallest_child_reads(current_idx) \cup next_reads
                  ELSE {}
    /\ pc' = "idle"
    /\ ret' = Some(root_value)
    /\ live' = [live EXCEPT ![root_value] = @ - 1]
    /\ nSome' = nSome + 1
    /\ out' = Append(out, root_value)
    /\ current_idx' = 0
    /\ root_value' = Default
    /\ UNCHANGED <<count, items, comparator, current_value, op, arg, nAdds,
                   emptyCalls, moves, after_push>>

Next ==
    \/ \E value \in Vals : add_begin(value)
    \/ add_sift_up
    \/ add_return
    \/ next_empty
    \/ next_begin
    \/ next_sift_down
    \/ next_return

Spec == Init /\ [][Next]_vars

----------------------------------------------------------------------------
\* Definitions the properties are stated with.

Idle == pc = "idle"

\* The comparator is a strict weak ordering on the values: irreflexive,
\* transitive, and with a transitive incomparability relation.
IsStrictWeakOrdering(f) ==
    /\ \A a \in Vals : ~Call(f, a, a)
    /\ \A a, b, c \in Vals : Call(f, a, b) /\ Call(f, b, c) => Call(f, a, c)
    /\ \A a, b, c \in Vals :
          (~Call(f, a, b) /\ ~Call(f, b, a) /\ ~Call(f, b, c) /\ ~Call(f, c, b))
              => (~Call(f, a, c) /\ ~Call(f, c, a))

\* No child is ranked strictly above its parent.
HeapInvariant ==
    \A i \in 1..count : \A c \in {2 * i, 2 * i + 1} :
        c <= count => ~Call(comparator, Get(items, c), Get(items, i))

LiveVals == {v \in Vals : live[v] > 0}
MinLive == CHOOSE v \in LiveVals : \A w \in LiveVals : v <= w
MaxLive == CHOOSE v \in LiveVals : \A w \in LiveVals : v >= w

\* A step that calls next(), and a step in which next() returns Some.
NextCalled == pc = "idle" /\ op' = "next"
NextReturned == pc = "next_loop" /\ pc' = "idle"
AddCalled == pc = "idle" /\ op' = "add"
AddReturned == pc = "add_loop" /\ pc' = "idle"

NonDecreasing(s) == \A i \in 1..(Len(s) - 1) : s[i] <= s[i + 1]
NonIncreasing(s) == \A i \in 1..(Len(s) - 1) : s[i] >= s[i + 1]

\* Every call so far is an add, or a next() after the last add: the run is
\* "add everything, then drain".
AddsThenNexts == nSome = Len(out)
Drained == Idle /\ op = "next" /\ ret = None /\ nAdds > 0

----------------------------------------------------------------------------
\* C1: with a strict weak ordering as the comparator (new_min, new_max
\* included), after every completed add and every completed next no child is
\* ranked strictly above its parent, whatever the interleaving of the calls.
C1_HeapInvariantPreserved ==
    HeapInvariant \/ ~Idle \/ ~IsStrictWeakOrdering(comparator)

\* A next() that swapped downwards has completed on a heap that has seen
\* interleaved adds and extractions, under an ordering with ties.
C1_Witness ==
    /\ Idle /\ op = "next" /\ comparator = "half_lt"
    /\ moves >= 1 /\ count >= 3 /\ nSome >= 2 /\ Len(out) = 1

\* C2: on a min-heap, next() on a non-empty heap does not return None, and
\* the Some(v) it returns is the minimum of the values live before the call,
\* adds between extractions included.
C2_MinExtraction ==
    [][/\ comparator = "lt" /\ NextCalled /\ LiveVals # {} => pc' = "next_loop"
       /\ comparator = "lt" /\ NextReturned => ret' = Some(MinLive)]_vars

\* The scenario of test_min_heap: four adds, three extractions, the add of a
\* new minimum, which the next extraction returns; the largest value remains.
C2_Witness ==
    /\ Idle /\ op = "next" /\ comparator = "lt"
    /\ nAdds = 5 /\ nSome = 4 /\ out = <<0>> /\ ret = Some(0)
    /\ live[MaxVal] = 1

\* C3: on a max-heap, next() on a non-empty heap does not return None, and
\* the Some(v) it returns is the maximum of the values live before the call,
\* adds between extractions included.
C3_MaxExtraction ==
    [][/\ comparator = "gt" /\ NextCalled /\ LiveVals # {} => pc' = "next_loop"
       /\ comparator = "gt" /\ NextReturned => ret' = Some(MaxLive)]_vars

\* The scenario of test_max_heap: four adds, three extractions, the add of a
\* new minimum; the next extraction returns the old remaining value and the
\* added one remains.
C3_Witness ==
    /\ Idle /\ op = "next" /\ comparator = "gt"
    /\ nAdds = 5 /\ nSome = 4 /\ out = <<1>> /\ ret = Some(1)
    /\ live[0] = 1

\* C4: values added to a new heap and then extracted until None come out in
\* non-decreasing order from a min-heap and in non-increasing order from a
\* max-heap, and the extracted sequence is a permutation of the added values:
\* as many values, and none left live.
C4_SortedExtraction ==
    /\ comparator = "lt" => NonDecreasing(out)
    /\ comparator = "gt" => NonIncreasing(out)
    /\ (comparator \in {"lt", "gt"} /\ AddsThenNexts /\ Drained) =>
          /\ Len(out) = nAdds
          /\ \A v \in Vals : live[v] = 0

\* Five values with a duplicate were added and drained from a min-heap.
C4_Witness ==
    /\ comparator = "lt" /\ AddsThenNexts /\ Drained
    /\ out = <<0, 2, 2, 3, 4>>

\* C5: between calls len() is the number of adds minus the number of next()
\* calls that returned Some, it is never negative, and is_empty() holds
\* exactly when the two numbers are equal; an add raises len() by exactly 1,
\* a next() that returns Some lowers it by exactly 1, one that returns None
\* leaves it alone.
C5_CountCorrect ==
    /\ [](Idle => /\ len = nAdds - nSome
                  /\ len >= 0
                  /\ is_empty <=> (nAdds = nSome))
    /\ [][/\ AddCalled => len' = len + 1
          /\ AddReturned => len' = len
          /\ pc = "add_loop" => len' = len
          /\ NextCalled /\ pc' = "next_loop" => len' = len - 1
          /\ NextCalled /\ pc' = "idle" => len' = len /\ ret' = None
          /\ pc = "next_loop" => len' = len]_vars

\* Adds and extractions have both happened and elements remain.
C5_Witness ==
    /\ Idle /\ nAdds = 5 /\ nSome = 3 /\ len = 2 /\ ~is_empty

\* C6: next() on an empty heap, new or drained, returns None at once and
\* changes neither count nor the storage, however often it is called in a
\* row; an add after it stores its value as the only element.
C6_EmptyExtraction ==
    [][/\ (NextCalled /\ nAdds = nSome) =>
              /\ pc' = "idle"
              /\ ret' = None
              /\ count' = count
              /\ items' = items
              /\ count' = 0
              /\ items' = <<Default>>
       /\ (AddReturned /\ emptyCalls > 0) =>
              /\ count' = 1
              /\ items' = <<Default, arg>>]_vars

\* A heap that was filled and drained has answered None twice in a row.
C6_Witness ==
    /\ Idle /\ op = "next" /\ ret = None
    /\ emptyCalls >= 2 /\ nSome >= 2 /\ nAdds = nSome

\* C7: whatever the comparator, no step of add or next uses an index outside
\* the storage, so no call panics.
C7_MemorySafe == pc # "panic"

\* A sift-down has swapped twice under a comparator that is no ordering.
C7_Witness ==
    /\ pc = "next_loop" /\ moves >= 2
    /\ ~IsStrictWeakOrdering(comparator)

\* C8: both loops end, whatever the comparator: a loop in progress can always
\* take its next step, an iteration of the sift-up loop strictly lowers the
\* index and keeps it at least 1, and an iteration of the sift-down loop
\* strictly raises the index and keeps it at most count.
C8_Terminates ==
    /\ [](pc = "add_loop" => ENABLED (add_sift_up \/ add_return))
    /\ [](pc = "next_loop" => ENABLED (next_sift_down \/ next_return))
    /\ [][/\ (pc = "add_loop" /\ pc' = "add_loop") =>
                 (1 <= current_idx' /\ current_idx' < current_idx)
          /\ (pc = "next_loop" /\ pc' = "next_loop") =>
                 (current_idx < current_idx' /\ current_idx' <= count)]_vars

\* A loop is in progress after two iterations under the always-true comparator.
C8_Witness ==
    /\ comparator = "true" /\ moves >= 2
    /\ pc \in {"add_loop", "next_loop"}

\* C9: right after construction, by any constructor, len() is 0, is_empty()
\* holds and the storage is the one placeholder slot.
C9_ConstructionEmpty ==
    (op = "new" /\ Idle) =>
        /\ len = 0
        /\ is_empty
        /\ Len(items) = 1
        /\ Get(items, 0) = Default

\* A heap built by new_max on which no method has been called.
C9_Witness == op = "new" /\ Idle /\ new_max

\* C10: the storage is always one slot longer than count, slot 0 holds the
\* placeholder, and no step reads, writes or compares slot 0.
C10_StorageLayout ==
    /\ Len(items) = count + 1
    /\ Get(items, 0) = Default
    /\ 0 \notin touched

\* A max-heap holding non-default values whose sift-up reached the root.
C10_Witness ==
    /\ Idle /\ op = "add" /\ comparator = "gt"
    /\ count >= 3 /\ moves >= 2 /\ Get(items, 1) # Default

\* The child the sift-down compares node i with: the right one only if it
\* exists and is ranked strictly above the left one.
Candidate(i) ==
    IF /\ 2 * i + 1 <= count
       /\ Call(comparator, Get(items, 2 * i + 1), Get(items, 2 * i))
    THEN 2 * i + 1
    ELSE 2 * i

\* C11: a step of the sift-down loop at node i takes the left child 2i as the
\* candidate unless the right child 2i+1 exists and is ranked strictly above
\* the left one (so the left child wins ties and is the candidate when it is
\* the only child); it swaps node and candidate and goes on at the candidate
\* only if the candidate is ranked strictly above the node, and otherwise, or
\* without a child, returns and leaves the storage alone.
C11_LeftChildTieBreak ==
    [][pc = "next_loop" =>
          IF /\ 2 * current_idx <= count
             /\ Call(comparator, Get(items, Candidate(current_idx)), Get(items, current_idx))
          THEN /\ pc' = "next_loop"
               /\ current_idx' = Candidate(current_idx)
               /\ items' = swap(items, current_idx, Candidate(current_idx))
          ELSE /\ pc' = "idle"
               /\ items' = items]_vars

\* The root of a min-heap had two equal children, both ranked above it, and
\* was swapped with the left one.
C11_Witness ==
    /\ comparator = "lt" /\ pc = "next_loop"
    /\ moves = 1 /\ current_idx = 2 /\ count >= 3
    /\ Get(items, 1) = Get(items, 3)

\* How often v occurs among the live slots 1..count of the storage.
Occurrences(v) == Cardinality({i \in 1..count : Get(items, i) = v})

\* C12: between calls, whatever the comparator, each value occurs in the
\* slots 1..count exactly as often as it was added minus as often as it was
\* returned by next(): add neither duplicates nor loses an element, and next
\* removes one occurrence of the value it returns.
C12_ElementConservation ==
    Idle => \A v \in Vals : Occurrences(v) = live[v]

\* An add has shifted two parents down, on a heap that holds a duplicate and
\* from which values were extracted before.
C12_Witness ==
    /\ Idle /\ op = "add" /\ moves >= 2 /\ nSome >= 1
    /\ \E v \in Vals : live[v] >= 2

\* Index k and its ancestors in the implicit tree, up to the root 1.
RECURSIVE PathToRoot(_)
PathToRoot(k) == IF k <= 1 THEN {k} ELSE {k} \cup PathToRoot(k \div 2)

\* C13: after add(value) on a heap of n elements, whatever the comparator,
\* every slot of 1..n off the path from n+1 to the root holds what it held
\* before, and there is an index j on the path where the new value ends: the
\* path slots above j are unchanged, every path slot below j holds what its
\* parent held (the displaced elements moved down one level, in order), the
\* new value is ranked strictly above each displaced element, and j is the
\* root or the new value is not ranked strictly above the element at the
\* parent of j.
C13_SiftUpFrame ==
    (Idle /\ op = "add") =>
        LET n == count - 1
            value == Get(after_push, n + 1)
            path == PathToRoot(n + 1)
        IN  /\ Len(after_push) = Len(items)
            /\ \A i \in (1..n) \ path : Get(items, i) = Get(after_push, i)
            /\ \E j \in path :
                  /\ Get(items, j) = value
                  /\ \A k \in path :
                        /\ k < j => Get(items, k) = Get(after_push, k)
                        /\ k > j => /\ Get(items, k) = Get(after_push, k \div 2)
                                    /\ Call(comparator, value, Get(after_push, k \div 2))
                  /\ j = 1 \/ ~Call(comparator, value, Get(after_push, j \div 2))

\* A value equal to the root of a min-heap was added as the fifth element: it
\* moved above its parent and stopped below the equal root.
C13_Witness ==
    /\ Idle /\ op = "add" /\ comparator = "lt"
    /\ count = 5 /\ moves = 1
    /\ Get(items, 2) = Get(items, 1)
    /\ Get(items, 5) # Get(items, 2)
    /\ Get(after_push, 5) = Get(items, 2)

\* C14: whenever as many values have been returned by next() as were added,
\* the heap is what new made it with the same comparator, whatever the
\* comparator and the order of the calls: count is 0, the storage is the one
\* placeholder slot, and the comparator is the one given to new, which no
\* step changes.
C14_DrainRestoresNew ==
    /\ []((Idle /\ nAdds = nSome) => (count = 0 /\ items = <<Default>>))
    /\ [][comparator' = comparator]_vars

\* Five values were added and all extracted, with adds after extractions,
\* under a comparator that is no ordering.
C14_Witness ==
    /\ Idle /\ op = "next" /\ comparator = "succ"
    /\ nAdds = 5 /\ nSome = 5 /\ Len(out) <= 2
    /\ count = 0 /\ items = <<Default>>

\* floor(log2(n)) for n >= 1: the height of a complete binary tree of n nodes.
RECURSIVE FloorLog2(_)
FloorLog2(n) == IF n <= 1 THEN 0 ELSE 1 + FloorLog2(n \div 2)

\* C15: whatever the comparator, an add that brings the heap to n elements
\* makes at most floor(log2(n)) sift-up moves and a next() that leaves n >= 1
\* elements makes at most floor(log2(n)) sift-down swaps (none when it leaves
\* the heap empty); an iteration of the sift-down loop that is still to come,
\* the one that ends in break included, stays within the same bound.
C15_LogStepBound ==
    /\ count >= 1 => moves <= FloorLog2(count)
    /\ count = 0 => moves = 0
    /\ (pc = "next_loop" /\ 2 * current_idx <= count) => moves + 1 <= FloorLog2(count)

\* The bound is met: an add to five elements has moved two parents down, or
\* a next() that leaves four elements has swapped twice.
C15_Witness ==
    /\ Idle /\ moves = 2 /\ count \in {4, 5}
    /\ op = "add" => count = 5
    /\ op = "next" => count = 4
    /\ comparator = "ne"

====
